---- MODULE Spec2Model ----
(***************************************************************************)
(* A model of pkg/sqlite/sqlite.go: the cgo binding of SQLite 3.           *)
(*                                                                         *)
(* The wrapper state is the Go structs Conn, Stmt and Backup.  The engine  *)
(* (the C library) is an external collaborator: every status, count or     *)
(* message it returns is a nondeterministic choice from a small set, and   *)
(* a call that hands it a null or an already released handle either        *)
(* aborts the process or returns some status.                              *)
(***************************************************************************)
EXTENDS Integers, Sequences, FiniteSets, TLC

(***************************************************************************)
(* Bounds of the model.                                                    *)
(***************************************************************************)
\* the most arguments passed to Stmt.Exec / Conn.Exec / Stmt.Scan
MaxArgs == 1
\* the most bind parameters of a compiled statement
MaxParams == 1
\* the most engine release calls (close, finalize, backup-finish) counted per handle
MaxCalls == 2

(***************************************************************************)
(* Status codes.                                                           *)
(***************************************************************************)
Row == 100
Done == 101
ErrBusy == 5
ErrLocked == 6
ErrMisuse == 21

errText ==
  [e \in (1..26) \cup {100, 101} |->
    CASE e = 1 -> "SQL error or missing database"
      [] e = 2 -> "Internal logic error in SQLite"
      [] e = 3 -> "Access permission denied"
      [] e = 4 -> "Callback routine requested an abort"
      [] e = 5 -> "The database file is locked"
      [] e = 6 -> "A table in the database is locked"
      [] e = 7 -> "A malloc() failed"
      [] e = 8 -> "Attempt to write a readonly database"
      [] e = 9 -> "Operation terminated by sqlite3_interrupt()*/"
      [] e = 10 -> "Some kind of disk I/O error occurred"
      [] e = 11 -> "The database disk image is malformed"
      [] e = 12 -> "NOT USED. Table or record not found"
      [] e = 13 -> "Insertion failed because database is full"
      [] e = 14 -> "Unable to open the database file"
      [] e = 15 -> "NOT USED. Database lock protocol error"
      [] e = 16 -> "Database is empty"
      [] e = 17 -> "The database schema changed"
      [] e = 18 -> "String or BLOB exceeds size limit"
      [] e = 19 -> "Abort due to constraint violation"
      [] e = 20 -> "Data type mismatch"
      [] e = 21 -> "Library used incorrectly"
      [] e = 22 -> "Uses OS features not supported on host"
      [] e = 23 -> "Authorization denied"
      [] e = 24 -> "Auxiliary database format error"
      [] e = 25 -> "2nd parameter to sqlite3_bind out of range"
      [] e = 26 -> "File opened that is not a database file"
      [] e = 100 -> "sqlite3_step() has another row ready"
      [] e = 101 -> "sqlite3_step() has finished executing"]

\* Errno.String
ErrnoString(e) ==
  IF e \in DOMAIN errText THEN errText[e] ELSE "errno " \o ToString(e)

(***************************************************************************)
(* os.Error values.                                                        *)
(***************************************************************************)
Nil == [kind |-> "nil", code |-> 0, text |-> ""]
Errno(rv) == [kind |-> "Errno", code |-> rv, text |-> ""]
NewError(s) == [kind |-> "NewError", code |-> 0, text |-> s]
EINVAL == [kind |-> "os.Errno", code |-> 22, text |-> ""]
\* the process died inside the engine: the operation never returned
Aborted == [kind |-> "aborted", code |-> 0, text |-> ""]

NilDbError == NewError("nil sqlite database")

(***************************************************************************)
(* Handles.                                                                *)
(***************************************************************************)
NIL == "nil"
Conns == {"dst", "src"}
DbHandle(c) == "sqlite3:" \o c
StmtHandle == "sqlite3_stmt"
BackupHandle == "sqlite3_backup"

(***************************************************************************)
(* What the engine may answer.                                             *)
(***************************************************************************)
\* sqlite3_errmsg
EngineMsgs == {"not an error", "database is locked"}
\* sqlite3_errcode
ErrCodes == {0, 1}
\* sqlite3_errcode of the destination after sqlite3_backup_init failed
InitErrCodes == {1}
\* sqlite3_errcode(NULL): SQLITE_NOMEM
NullErrCodes == {7}
\* sqlite3_backup_remaining and sqlite3_backup_pagecount
PageCounts == {0, 1}
\* sqlite3_open_v2: a status and whether a handle came back
OpenOutcomes == {<<14, FALSE>>, <<0, FALSE>>, <<0, TRUE>>}
\* sqlite3_busy_timeout
BusyTimeoutStatuses == {0, 1}
\* sqlite3_close
CloseStatuses == {0, ErrBusy}
\* sqlite3_prepare_v2
PrepareStatuses == {0, 1}
\* sqlite3_step: never SQLITE_OK
StepStatuses == {1, ErrMisuse, Row, Done}
\* my_bind_text / my_bind_blob
BindStatuses == {0, 25}
\* sqlite3_finalize
FinalizeStatuses == {0, 1}
\* sqlite3_backup_step
BackupStepStatuses == {0, ErrBusy, ErrLocked, 1, Done}
\* a call made with a null or released handle that did not abort the process
MisuseStatuses == {ErrMisuse}
\* the statuses Conn.error is rendered for
ErrorStatuses == {0, 1, ErrBusy, ErrMisuse, 27, Row, Done}

\* one engine call and the state of the handle it was given
Call(fn, h) == <<fn, h>>
DbArg(db) == IF db = NIL THEN "null" ELSE "ok"

VARIABLES
  threadsafe,  \* sqlite3_threadsafe() # 0, a property of the linked engine
  conn,        \* conn[c]: has Open returned this Conn, and its db field
  engine,      \* engine[c]: is the handle Open returned still open, and how
               \* often sqlite3_close succeeded on it
  stmt,        \* the Stmt value and the engine's side of its handle
  bk,          \* the Backup value and the engine's side of its handle
  run,         \* the position of Backup.Run in its loop
  last,        \* the last operation: its result and its engine calls
  crashed      \* the process died inside the engine

vars == <<threadsafe, conn, engine, stmt, bk, run, last, crashed>>

NoLast ==
  [op |-> "none", c |-> "-", ret |-> Nil, rv |-> -1, calls |-> {},
   dbnil |-> FALSE, n |-> 0, m |-> 0, pre |-> Nil, ok |-> FALSE]

\* err is the field Stmt.Error returns; nparams, rc (the status sqlite3_reset
\* will return) and finalized (the calls of sqlite3_finalize on the handle)
\* are the engine's.  The fields sql, args and t0 feed only Stmt.SQL and
\* Stmt.Nanoseconds and are left out.
NoStmt ==
  [made |-> FALSE, c |-> "dst", stmt |-> NIL, err |-> Nil, nparams |-> 0,
   rc |-> 0, finalized |-> 0]

\* sb is the field of Backup, dst and src are the connections "dst" and "src";
\* finished counts the calls of sqlite3_backup_finish on the handle
NoBackup == [made |-> FALSE, sb |-> NIL, finished |-> 0]

Idle == [pc |-> "idle", npage |-> 0, sink |-> FALSE, err |-> Nil, rv |-> -1]

Init ==
  /\ threadsafe \in BOOLEAN
  /\ conn = [c \in Conns |-> [made |-> FALSE, db |-> NIL]]
  /\ engine = [c \in Conns |-> [open |-> FALSE, closes |-> 0]]
  /\ stmt = NoStmt
  /\ bk = NoBackup
  /\ run = Idle
  /\ last = NoLast
  /\ crashed = FALSE

\* The caller is sequential: an operation is called once the one before it has
\* returned, and not while the process is dead or Backup.Run holds the caller
Callable == ~crashed /\ run.pc = "idle" /\ last.op = "none"

\* the operation returns its result to the caller
Return ==
  /\ ~crashed
  /\ last.op # "none"
  /\ last' = NoLast
  /\ UNCHANGED <<threadsafe, conn, engine, stmt, bk, run, crashed>>

\* the process dies inside an engine call
Abort(op, c, calls) ==
  /\ crashed' = TRUE
  /\ last' = [NoLast EXCEPT !.op = op, !.c = c, !.ret = Aborted, !.calls = calls,
                !.dbnil = (conn[c].db = NIL)]

\* Conn.error without its case for misuse
ConnError_noMisuse(db, rv, msg) ==
  IF db = NIL THEN NilDbError
  ELSE IF rv = 0 THEN Nil
  ELSE NewError(ErrnoString(rv) \o ": " \o msg)

\* Conn.error: the rendering of an engine status as an os.Error
ConnError(db, rv, msg) ==
  IF db = NIL THEN NilDbError
  ELSE IF rv = 0 THEN Nil
  ELSE IF rv = 21 THEN Errno(rv)
  ELSE NewError(ErrnoString(rv) \o ": " \o msg)

\* Conn.error for each message sqlite3_errmsg may give
Render(db, rv) == {ConnError(db, rv, msg) : msg \in EngineMsgs}

\* Conn.error applied to a connection as it stands
error(c) ==
  /\ Callable
  /\ conn[c].made
  /\ \E rv \in ErrorStatuses, msg \in EngineMsgs :
       last' = [NoLast EXCEPT !.op = "error", !.c = c, !.rv = rv,
                  !.dbnil = (conn[c].db = NIL),
                  !.pre = NewError(msg),
                  !.ret = ConnError(conn[c].db, rv, msg)]
  /\ UNCHANGED <<threadsafe, conn, engine, stmt, bk, run, crashed>>

\* Open
Open(c) ==
  /\ Callable
  /\ ~conn[c].made
  /\ IF ~threadsafe
     THEN /\ last' = [NoLast EXCEPT !.op = "Open", !.c = c,
                        !.ret = NewError("sqlite library was not compiled for thread-safe operation")]
          /\ UNCHANGED <<conn, engine>>
     ELSE \E o \in OpenOutcomes :
            IF o[1] # 0
            THEN /\ last' = [NoLast EXCEPT !.op = "Open", !.c = c, !.rv = o[1],
                               !.ret = Errno(o[1])]
                 /\ UNCHANGED <<conn, engine>>
            ELSE IF ~o[2]
            THEN /\ last' = [NoLast EXCEPT !.op = "Open", !.c = c, !.rv = 0,
                               !.ret = NewError("sqlite succeeded without returning a database")]
                 /\ UNCHANGED <<conn, engine>>
            ELSE /\ conn' = [conn EXCEPT ![c] = [made |-> TRUE, db |-> DbHandle(c)]]
                 /\ engine' = [engine EXCEPT ![c] = [open |-> TRUE, closes |-> 0]]
                 /\ last' = [NoLast EXCEPT !.op = "Open", !.c = c, !.rv = 0,
                               !.ok = TRUE, !.ret = Nil]
  /\ UNCHANGED <<threadsafe, stmt, bk, run, crashed>>

\* Conn.Close that forgets to clear the handle
ClosedHandle_kept(db, rv) == db

\* the db field Conn.Close leaves when sqlite3_close returned rv
ClosedHandle(db, rv) == IF rv # 0 THEN db ELSE NIL

\* Conn.Close
ConnClose(c) ==
  /\ Callable
  /\ conn[c].made
  /\ IF conn[c].db = NIL
     THEN /\ last' = [NoLast EXCEPT !.op = "Conn.Close", !.c = c, !.dbnil = TRUE,
                        !.ret = NilDbError]
          /\ UNCHANGED <<conn, engine>>
     ELSE /\ engine[c].closes < MaxCalls
          /\ \E rv \in CloseStatuses : \E ret \in Render(conn[c].db, rv) :
               /\ conn' = [conn EXCEPT ![c].db = ClosedHandle(conn[c].db, rv)]
               /\ engine' = [engine EXCEPT ![c] =
                               IF rv # 0 THEN engine[c]
                               ELSE [open |-> FALSE, closes |-> engine[c].closes + 1]]
               /\ last' = [NoLast EXCEPT !.op = "Conn.Close", !.c = c, !.rv = rv,
                             !.calls = {Call("sqlite3_close", "ok")}, !.ret = ret]
  /\ UNCHANGED <<threadsafe, stmt, bk, run, crashed>>

\* Conn.BusyTimeout; ms goes to the engine and leaves the wrapper's state alone
BusyTimeout(c) ==
  /\ Callable
  /\ conn[c].made
  /\ LET db == conn[c].db
         calls == {Call("sqlite3_busy_timeout", DbArg(db))}
         statuses == IF db = NIL THEN MisuseStatuses ELSE BusyTimeoutStatuses
     IN \/ /\ db = NIL
           /\ Abort("Conn.BusyTimeout", c, calls)
        \/ /\ \E rv \in statuses :
                last' = [NoLast EXCEPT !.op = "Conn.BusyTimeout", !.c = c, !.rv = rv,
                           !.dbnil = (db = NIL), !.calls = calls,
                           !.ret = IF rv = 0 THEN Nil ELSE Errno(rv)]
           /\ UNCHANGED crashed
  /\ UNCHANGED <<threadsafe, conn, engine, stmt, bk, run>>

(***************************************************************************)
(* Statements.                                                             *)
(***************************************************************************)
\* the dynamic types of the arguments of Exec
ArgKinds == {"[]byte", "bool", "string"}
ArgLists == UNION {[1..k -> ArgKinds] : k \in 0..MaxArgs}
StmtArg(s) == IF s.finalized > 0 THEN "stale" ELSE "ok"

\* the bind function the type switch of Stmt.Exec picks
BindFn(kind) == IF kind = "[]byte" THEN "my_bind_blob" ELSE "my_bind_text"

ArgCountError(have, want) ==
  NewError("incorrect argument count for Stmt.Exec: have " \o ToString(have)
           \o " want " \o ToString(want))

\* Stmt.Exec without its check of the argument count: it binds what it was given
StmtExecOutcomes_noCount(db, h, rv, n, args) ==
  LET reset == {Call("sqlite3_reset", h)}
      count == reset \cup {Call("sqlite3_bind_parameter_count", h)}
      Binds(k) == {Call(BindFn(args[i]), h) : i \in 1..k}
  IN IF rv # 0
     THEN {[ret |-> ret, calls |-> reset] : ret \in Render(db, rv)}
     ELSE {[ret |-> Nil, calls |-> count \cup Binds(Len(args))]}

\* The body of Stmt.Exec after sqlite3_reset returned rv on a statement with n
\* bind parameters: every result it may have and the engine calls made on
\* the way.  h is the state of the statement handle, db the handle of s.c.
StmtExecOutcomes(db, h, rv, n, args) ==
  LET reset == {Call("sqlite3_reset", h)}
      count == reset \cup {Call("sqlite3_bind_parameter_count", h)}
      Binds(k) == {Call(BindFn(args[i]), h) : i \in 1..k}
  IN IF rv # 0
     THEN {[ret |-> ret, calls |-> reset] : ret \in Render(db, rv)}
     ELSE IF n # Len(args)
     THEN {[ret |-> ArgCountError(Len(args), n), calls |-> count]}
     ELSE {[ret |-> Nil, calls |-> count \cup Binds(Len(args))]}
          \cup UNION {{[ret |-> ret, calls |-> count \cup Binds(k)] : ret \in Render(db, b)} :
                        <<k, b>> \in (1..Len(args)) \X (BindStatuses \ {0})}

\* Conn.Prepare
Prepare(c) ==
  /\ Callable
  /\ conn[c].made
  /\ IF conn[c].db = NIL
     THEN /\ last' = [NoLast EXCEPT !.op = "Conn.Prepare", !.c = c, !.dbnil = TRUE,
                        !.ret = NilDbError]
          /\ UNCHANGED stmt
     ELSE LET calls == {Call("sqlite3_prepare_v2", "ok")} IN
          \E rv \in PrepareStatuses :
            IF rv # 0
            THEN /\ \E ret \in Render(conn[c].db, rv) :
                      last' = [NoLast EXCEPT !.op = "Conn.Prepare", !.c = c, !.rv = rv,
                                 !.calls = calls, !.ret = ret]
                 /\ UNCHANGED stmt
            ELSE \E n \in 0..MaxParams :
                 /\ stmt' = [made |-> TRUE, c |-> c, stmt |-> StmtHandle, err |-> Nil,
                             nparams |-> n, rc |-> 0, finalized |-> 0]
                 /\ last' = [NoLast EXCEPT !.op = "Conn.Prepare", !.c = c, !.rv = 0,
                               !.calls = calls, !.m = n, !.ok = TRUE, !.ret = Nil]
  /\ UNCHANGED <<threadsafe, conn, engine, bk, run, crashed>>

\* the results of Stmt.Exec over every argument list
StmtExecResults(db, h, rv, n) ==
  UNION {{[n |-> Len(args), ret |-> o.ret, calls |-> o.calls] :
            o \in StmtExecOutcomes(db, h, rv, n, args)} : args \in ArgLists}

\* Stmt.Exec
StmtExec ==
  /\ Callable
  /\ stmt.made
  /\ LET h == StmtArg(stmt)
         db == conn[stmt.c].db
     IN \/ /\ h = "stale"
           /\ Abort("Stmt.Exec", stmt.c, {Call("sqlite3_reset", h)})
           /\ UNCHANGED stmt
        \/ \E rv \in (IF h = "stale" THEN {0} \cup MisuseStatuses ELSE {stmt.rc}) :
           \E o \in StmtExecResults(db, h, rv, stmt.nparams) :
             /\ stmt' = [stmt EXCEPT !.rc = 0]
             /\ last' = [NoLast EXCEPT !.op = "Stmt.Exec", !.c = stmt.c, !.rv = rv,
                           !.n = o.n, !.m = stmt.nparams, !.calls = o.calls,
                           !.ret = o.ret]
             /\ UNCHANGED crashed
  /\ UNCHANGED <<threadsafe, conn, engine, bk, run>>

\* the err field Stmt.Next leaves when sqlite3_step returned rv
NextErr(err, db, rv) ==
  IF rv = Row \/ rv = Done THEN {err} ELSE Render(db, rv)

\* Stmt.Next; Stmt.Error is the err field it leaves behind
StmtNext ==
  /\ Callable
  /\ stmt.made
  /\ LET h == StmtArg(stmt)
         db == conn[stmt.c].db
         calls == {Call("sqlite3_step", h)}
     IN \/ /\ h = "stale"
           /\ Abort("Stmt.Next", stmt.c, calls)
           /\ UNCHANGED stmt
        \/ \E rv \in StepStatuses : \E err \in NextErr(stmt.err, db, rv) :
             /\ stmt' = [stmt EXCEPT !.err = err,
                                     !.rc = IF rv \in {Row, Done} THEN 0 ELSE rv]
             /\ last' = [NoLast EXCEPT !.op = "Stmt.Next", !.c = stmt.c, !.rv = rv,
                           !.calls = calls, !.ok = (rv = Row),
                           !.pre = stmt.err, !.ret = err]
             /\ UNCHANGED crashed
  /\ UNCHANGED <<threadsafe, conn, engine, bk, run>>

\* Stmt.Reset
StmtReset ==
  /\ Callable
  /\ stmt.made
  /\ LET h == StmtArg(stmt)
         calls == {Call("sqlite3_reset", h)}
     IN \/ /\ h = "stale"
           /\ Abort("Stmt.Reset", stmt.c, calls)
           /\ UNCHANGED stmt
        \/ /\ stmt' = [stmt EXCEPT !.rc = 0]
           /\ last' = [NoLast EXCEPT !.op = "Stmt.Reset", !.c = stmt.c,
                         !.calls = calls, !.ret = Nil]
           /\ UNCHANGED crashed
  /\ UNCHANGED <<threadsafe, conn, engine, bk, run>>

\* Stmt.Finalize
StmtFinalize ==
  /\ Callable
  /\ stmt.made
  /\ stmt.finalized < MaxCalls
  /\ LET h == StmtArg(stmt)
         db == conn[stmt.c].db
         calls == {Call("sqlite3_finalize", h)}
     IN \/ /\ h = "stale"
           /\ Abort("Stmt.Finalize", stmt.c, calls)
           /\ UNCHANGED stmt
        \/ \E rv \in FinalizeStatuses : \E ret \in Render(db, rv) :
             /\ stmt' = [stmt EXCEPT !.finalized = stmt.finalized + 1, !.rc = 0]
             /\ last' = [NoLast EXCEPT !.op = "Stmt.Finalize", !.c = stmt.c, !.rv = rv,
                           !.calls = calls, !.ret = ret]
             /\ UNCHANGED crashed
  /\ UNCHANGED <<threadsafe, conn, engine, bk, run>>

\* the types of the targets of Scan; "other" is any type outside its switch
ScanKinds == {"*[]byte", "*string", "*bool", "*int", "*int64", "*float64", "other"}
ScanLists == UNION {[1..k -> ScanKinds] : k \in 0..MaxArgs}
\* sqlite3_column_bytes and sqlite3_column_blob of one column: the length, whether
\* the pointer is null, and the bytes
ColumnOutcomes ==
  {[n |-> 0, null |-> TRUE, data |-> ""], [n |-> 1, null |-> TRUE, data |-> ""],
   [n |-> 1, null |-> FALSE, data |-> "1"], [n |-> 1, null |-> FALSE, data |-> "x"]}

\* strconv.Atoi, Atoi64 and Atof64 on the column texts of the model
IsNumeral(data) == data = "1"

\* one column of Stmt.Scan: the value stored through the target, or the error
ScanColumn(kind, i, col) ==
  LET data == IF col.n > 0 THEN col.data ELSE ""
      Parse(type) ==
        IF IsNumeral(data) THEN [ret |-> Nil, val |-> data]
        ELSE [ret |-> NewError("arg " \o ToString(i) \o " as " \o type
                               \o ": parsing " \o data), val |-> ""]
  IN IF col.null /\ col.n > 0 THEN [ret |-> NewError("got nil blob"), val |-> ""]
     ELSE CASE kind = "*[]byte" -> [ret |-> Nil, val |-> data]
            [] kind = "*string" -> [ret |-> Nil, val |-> data]
            [] kind = "*bool" -> [ret |-> Nil, val |-> IF data = "1" THEN "true" ELSE "false"]
            [] kind = "*int" -> Parse("int")
            [] kind = "*int64" -> Parse("int64")
            [] kind = "*float64" -> Parse("float64")
            [] OTHER -> [ret |-> NewError("unsupported type in Scan: " \o kind), val |-> ""]

\* the loop of Stmt.Scan from the target at index i (0-based) on: its results
RECURSIVE ScanFrom(_, _)
ScanFrom(targets, i) ==
  IF i >= Len(targets) THEN {Nil}
  ELSE LET here == {ScanColumn(targets[i + 1], i, col).ret : col \in ColumnOutcomes}
       IN (here \ {Nil}) \cup (IF Nil \in here THEN ScanFrom(targets, i + 1) ELSE {})

\* the results of Stmt.Scan over every list of targets and every column count
ScanResults(h) ==
  LET count == {Call("sqlite3_column_count", h)}
      columns == count \cup {Call("sqlite3_column_bytes", h), Call("sqlite3_column_blob", h)}
  IN UNION {IF n # Len(targets)
            THEN {[n |-> Len(targets), m |-> n, calls |-> count,
                   ret |-> NewError("incorrect argument count for Stmt.Scan: have "
                                    \o ToString(Len(targets)) \o " want " \o ToString(n))]}
            ELSE {[n |-> Len(targets), m |-> n,
                   calls |-> IF n = 0 THEN count ELSE columns, ret |-> ret] :
                    ret \in ScanFrom(targets, 0)} :
              <<targets, n>> \in ScanLists \X (0..MaxArgs)}

\* Stmt.Scan; the values go to the caller's targets and are not kept
StmtScan ==
  /\ Callable
  /\ stmt.made
  /\ LET h == StmtArg(stmt)
     IN \/ /\ h = "stale"
           /\ Abort("Stmt.Scan", stmt.c, {Call("sqlite3_column_count", h)})
        \/ /\ \E o \in ScanResults(h) :
                last' = [NoLast EXCEPT !.op = "Stmt.Scan", !.c = stmt.c,
                           !.n = o.n, !.m = o.m, !.calls = o.calls, !.ret = o.ret]
           /\ UNCHANGED crashed
  /\ UNCHANGED <<threadsafe, conn, engine, stmt, bk, run>>

\* Conn.Exec that takes a row for success
ExecStep_rowOk(db, rv, msg) ==
  IF rv # Done /\ rv # Row THEN NewError(ErrnoString(rv) \o ": " \o msg) ELSE Nil

\* the end of Conn.Exec: the result for the status of its one step
ExecStep(db, rv, msg) ==
  IF rv # Done THEN ConnError(db, rv, msg) ELSE Nil

\* Conn.Exec on an open connection: Prepare, Stmt.Exec, one step and the
\* deferred Finalize, on a statement of its own
ConnExecResults(db) ==
  LET prepare == {Call("sqlite3_prepare_v2", "ok")}
      finalize == {Call("sqlite3_finalize", "ok")}
      step == {Call("sqlite3_step", "ok")}
      Failed(args) ==
        {[n |-> Len(args), m |-> 0, ok |-> FALSE, rv |-> -1, calls |-> prepare,
          pre |-> ret, ret |-> ret] :
           ret \in UNION {Render(db, prv) : prv \in PrepareStatuses \ {0}}}
      Prepared(args, n) ==
        UNION {IF o.ret # Nil
               THEN {[n |-> Len(args), m |-> n, ok |-> TRUE, rv |-> -1,
                      calls |-> prepare \cup o.calls \cup finalize,
                      pre |-> o.ret, ret |-> o.ret]}
               ELSE {[n |-> Len(args), m |-> n, ok |-> TRUE, rv |-> rv,
                      calls |-> prepare \cup o.calls \cup step \cup finalize,
                      pre |-> Nil, ret |-> ExecStep(db, rv, msg)] :
                       <<rv, msg>> \in StepStatuses \X EngineMsgs} :
                 o \in StmtExecOutcomes(db, "ok", 0, n, args)}
  IN UNION {Failed(args) \cup UNION {Prepared(args, n) : n \in 0..MaxParams} :
              args \in ArgLists}

\* Conn.Exec
ConnExec(c) ==
  /\ Callable
  /\ conn[c].made
  /\ IF conn[c].db = NIL
     THEN last' = [NoLast EXCEPT !.op = "Conn.Exec", !.c = c, !.dbnil = TRUE,
                     !.ret = NilDbError]
     ELSE \E o \in ConnExecResults(conn[c].db) :
            last' = [NoLast EXCEPT !.op = "Conn.Exec", !.c = c, !.n = o.n, !.m = o.m,
                       !.ok = o.ok, !.rv = o.rv, !.calls = o.calls, !.pre = o.pre,
                       !.ret = o.ret]
  /\ UNCHANGED <<threadsafe, conn, engine, stmt, bk, run, crashed>>


(***************************************************************************)
(* Backup sessions.  NewBackup is called with the connection "dst" as dst  *)
(* and the connection "src" as src.                                        *)
(***************************************************************************)
SbArg(b) == IF b.sb = NIL THEN "null" ELSE "ok"

\* NewBackup
NewBackup ==
  /\ Callable
  /\ conn["dst"].made /\ conn["src"].made
  /\ ~bk.made
  /\ LET d == conn["dst"].db
         s == conn["src"].db
         null == d = NIL \/ s = NIL
         init == {Call("sqlite3_backup_init(pDest)", DbArg(d)),
                  Call("sqlite3_backup_init(pSource)", DbArg(s))}
         calls == init \cup {Call("sqlite3_errcode", DbArg(d))}
     IN \/ /\ null
           /\ Abort("NewBackup", "dst", init)
           /\ UNCHANGED bk
        \/ \* sb == nil
           /\ \E code \in (IF d = NIL THEN NullErrCodes ELSE InitErrCodes) :
              \E ret \in Render(d, code) :
                last' = [NoLast EXCEPT !.op = "NewBackup", !.c = "dst", !.rv = code,
                           !.dbnil = null, !.calls = calls, !.ret = ret]
           /\ UNCHANGED <<bk, crashed>>
        \/ /\ ~null
           /\ bk' = [made |-> TRUE, sb |-> BackupHandle, finished |-> 0]
           /\ last' = [NoLast EXCEPT !.op = "NewBackup", !.c = "dst", !.ok = TRUE,
                         !.calls = init, !.ret = Nil]
           /\ UNCHANGED crashed
  /\ UNCHANGED <<threadsafe, conn, engine, stmt, run>>

\* Backup.Step that takes busy and locked for failures
StepResult_busyFails(rv) == IF rv = 0 THEN Nil ELSE Errno(rv)

\* the result of Backup.Step when sqlite3_backup_step returned rv
StepResult(rv) ==
  IF rv = 0 \/ rv = ErrBusy \/ rv = ErrLocked THEN Nil ELSE Errno(rv)

\* what sqlite3_backup_step may return for the handle of b
StepAnswers(b) == IF b.sb = NIL THEN MisuseStatuses ELSE BackupStepStatuses

\* the page counts Step and Run are called with
NPages == {-1, 1}

\* Backup.Step; the page count goes to the engine alone
BackupStep ==
  /\ Callable
  /\ bk.made
  /\ LET calls == {Call("sqlite3_backup_step", SbArg(bk))}
     IN \/ /\ bk.sb = NIL
           /\ Abort("Backup.Step", "dst", calls)
        \/ /\ \E npage \in NPages, rv \in StepAnswers(bk) :
                last' = [NoLast EXCEPT !.op = "Backup.Step", !.c = "dst", !.rv = rv,
                           !.n = npage, !.calls = calls, !.ret = StepResult(rv)]
           /\ UNCHANGED crashed
  /\ UNCHANGED <<threadsafe, conn, engine, stmt, bk, run>>

\* Backup.Status: n is Remaining, m is PageCount
BackupStatus ==
  /\ Callable
  /\ bk.made
  /\ LET calls == {Call("sqlite3_backup_remaining", SbArg(bk)),
                   Call("sqlite3_backup_pagecount", SbArg(bk))}
     IN \/ /\ bk.sb = NIL
           /\ Abort("Backup.Status", "dst", calls)
        \/ /\ \E r \in PageCounts, p \in PageCounts :
                last' = [NoLast EXCEPT !.op = "Backup.Status", !.c = "dst",
                           !.n = r, !.m = p, !.calls = calls]
           /\ UNCHANGED crashed
  /\ UNCHANGED <<threadsafe, conn, engine, stmt, bk, run>>

\* Backup.Close without its check of the handle
BackupClose_unchecked ==
  /\ Callable
  /\ bk.made
  /\ bk.finished < MaxCalls
  /\ bk' = [bk EXCEPT !.sb = NIL, !.finished = bk.finished + 1]
  /\ last' = [NoLast EXCEPT !.op = "Backup.Close", !.c = "dst", !.ok = (bk.sb # NIL),
                !.calls = {Call("sqlite3_backup_finish", SbArg(bk))}, !.ret = Nil]
  /\ UNCHANGED <<threadsafe, conn, engine, stmt, run, crashed>>

\* Backup.Close
BackupClose ==
  /\ Callable
  /\ bk.made
  /\ IF bk.sb = NIL
     THEN /\ last' = [NoLast EXCEPT !.op = "Backup.Close", !.c = "dst", !.ret = EINVAL]
          /\ UNCHANGED bk
     ELSE /\ bk.finished < MaxCalls
          /\ bk' = [bk EXCEPT !.sb = NIL, !.finished = bk.finished + 1]
          /\ last' = [NoLast EXCEPT !.op = "Backup.Close", !.c = "dst", !.ok = TRUE,
                        !.calls = {Call("sqlite3_backup_finish", "ok")}, !.ret = Nil]
  /\ UNCHANGED <<threadsafe, conn, engine, stmt, run, crashed>>

(***************************************************************************)
(* Backup.Run, one action for each position in its loop.  sink tells       *)
(* whether the channel c is non-nil.                                       *)
(***************************************************************************)
RunLast == [NoLast EXCEPT !.op = "Backup.Run", !.c = "dst"]

\* the call of Run
RunCall ==
  /\ Callable
  /\ bk.made
  /\ \E npage \in NPages, sink \in BOOLEAN :
       run' = [Idle EXCEPT !.pc = "step", !.npage = npage, !.sink = sink]
  /\ UNCHANGED <<threadsafe, conn, engine, stmt, bk, last, crashed>>

\* err = b.Step(npage); the page count goes to the engine alone
RunStep ==
  /\ ~crashed
  /\ run.pc = "step"
  /\ LET calls == {Call("sqlite3_backup_step", SbArg(bk))}
     IN \/ /\ bk.sb = NIL
           /\ Abort("Backup.Run", "dst", calls)
           /\ UNCHANGED run
        \/ /\ \E rv \in StepAnswers(bk) :
                run' = [run EXCEPT !.pc = "check", !.rv = rv, !.err = StepResult(rv)]
           /\ UNCHANGED <<last, crashed>>
  /\ UNCHANGED <<threadsafe, conn, engine, stmt, bk>>

\* if err != nil { break }; if c != nil
RunCheck ==
  /\ ~crashed
  /\ run.pc = "check"
  /\ run' = [run EXCEPT !.pc = IF run.err # Nil THEN "return"
                               ELSE IF run.sink THEN "send" ELSE "sleep"]
  /\ UNCHANGED <<threadsafe, conn, engine, stmt, bk, last, crashed>>

\* c <- b.Status(), which waits for the receiver of the channel
RunSend ==
  /\ ~crashed
  /\ run.pc = "send"
  /\ run' = [run EXCEPT !.pc = "sleep"]
  /\ UNCHANGED <<threadsafe, conn, engine, stmt, bk, last, crashed>>

\* time.Sleep(sleepNs)
RunSleep ==
  /\ ~crashed
  /\ run.pc = "sleep"
  /\ run' = [run EXCEPT !.pc = "step"]
  /\ UNCHANGED <<threadsafe, conn, engine, stmt, bk, last, crashed>>

\* Run that returns what its last Step returned, Done meaning success
RunResult_fromStep(db, code, msg, err) == IF err = Errno(Done) THEN Nil ELSE err

\* the result of Run after its loop ended with err, when sqlite3_errcode of the
\* destination is code
RunResult(db, code, msg, err) == ConnError(db, code, msg)

\* return b.dst.error(C.sqlite3_errcode(b.dst.db))
RunReturn ==
  /\ ~crashed
  /\ run.pc = "return"
  /\ LET d == conn["dst"].db
     IN \E code \in (IF d = NIL THEN NullErrCodes ELSE ErrCodes), msg \in EngineMsgs :
          last' = [RunLast EXCEPT !.rv = run.rv, !.n = code, !.dbnil = (d = NIL),
                     !.pre = run.err, !.ok = TRUE,
                     !.calls = {Call("sqlite3_errcode", DbArg(d))},
                     !.ret = RunResult(d, code, msg, run.err)]
  /\ run' = Idle
  /\ UNCHANGED <<threadsafe, conn, engine, stmt, bk, crashed>>

Next ==
  \/ \E c \in Conns : error(c)
  \/ \E c \in Conns : Open(c)
  \/ \E c \in Conns : ConnClose(c)
  \/ \E c \in Conns : BusyTimeout(c)
  \/ \E c \in Conns : Prepare(c)
  \/ \E c \in Conns : ConnExec(c)
  \/ StmtExec
  \/ StmtNext
  \/ StmtReset
  \/ StmtScan
  \/ StmtFinalize
  \/ NewBackup
  \/ BackupStep
  \/ BackupStatus
  \/ BackupClose
  \/ RunCall
  \/ RunStep
  \/ RunCheck
  \/ RunSend
  \/ RunSleep
  \/ RunReturn
  \/ Return

Spec == Init /\ [][Next]_vars

\* Backup.Run is sequential code that keeps running, and the progress sink
\* keeps being received from
LiveSpec ==
  /\ Init /\ [][Next]_vars
  /\ WF_vars(RunStep) /\ WF_vars(RunCheck) /\ WF_vars(RunSend)
  /\ WF_vars(RunSleep) /\ WF_vars(RunReturn)

(***************************************************************************)
(* The claims.                                                             *)
(***************************************************************************)
Returned(op) == last.op = op /\ last.ret # Aborted
NullCalls == {call \in last.calls : call[2] = "null"}
StaleCalls == {call \in last.calls : call[2] = "stale"}
BindCalls == {call \in last.calls : call[1] \in {"my_bind_blob", "my_bind_text"}}
\* the form of a rendering of the nonzero status rv by an open connection
IsRendering(err, rv) ==
  IF rv = 21 THEN err = [kind |-> "Errno", code |-> 21, text |-> ""]
  ELSE \E msg \in EngineMsgs :
         err = [kind |-> "NewError", code |-> 0,
                text |-> (IF rv \in DOMAIN errText THEN errText[rv]
                          ELSE "errno " \o ToString(rv)) \o ": " \o msg]
Transient == {0, 5, 6}

\* C1: an operation that takes a Connection whose handle is nil (Conn.Prepare,
\* Conn.Exec, Conn.BusyTimeout, Conn.Close, NewBackup) returns the "nil sqlite
\* database" error and hands the null handle to no engine call.
C1_ClosedConnFailsFast ==
  last.op \in {"Conn.Prepare", "Conn.Exec", "Conn.BusyTimeout", "Conn.Close", "NewBackup"}
    => /\ NullCalls = {}
       /\ last.dbnil => last.ret = NewError("nil sqlite database")

\* C2: Conn.Close on a nil handle returns the "nil sqlite database" error
\* without calling sqlite3_close; when sqlite3_close returns 0 it clears the
\* handle and returns nil; when sqlite3_close returns another status it returns
\* an error and keeps the handle.  So the handle is the open handle or nil, it is
\* non-nil exactly while the engine's handle is open, and sqlite3_close succeeds
\* at most once for an opened handle.
C2_CloseLifecycle ==
  /\ last.op = "Conn.Close" =>
       /\ last.dbnil => last.ret = NewError("nil sqlite database") /\ last.calls = {}
       /\ last.rv = 0 => conn[last.c].db = NIL /\ last.ret = Nil
       /\ last.rv > 0 => conn[last.c].db = DbHandle(last.c) /\ last.ret # Nil
  /\ \A c \in Conns :
       /\ conn[c].db \in {NIL, DbHandle(c)}
       /\ conn[c].db # NIL <=> engine[c].open
       /\ engine[c].closes <= 1

C2_ClosedTwice ==
  last.op = "Conn.Close" /\ last.dbnil /\ engine[last.c].closes = 1

\* C3: once Stmt.Finalize has released the handle of a Statement, no operation
\* on the Statement hands that handle to the engine again; sqlite3_finalize is
\* called at most once for a prepared statement.
C3_NoUseAfterFinalize ==
  StaleCalls = {} /\ stmt.finalized <= 1

\* C4: the first Backup.Close calls sqlite3_backup_finish once, clears the
\* handle and returns nil; every later one returns EINVAL without an engine
\* call; sqlite3_backup_finish is called at most once for a session.
C4_BackupCloseOnce ==
  /\ bk.finished <= 1
  /\ last.op = "Backup.Close" =>
       /\ bk.sb = NIL /\ bk.finished = 1
       /\ IF last.ok
          THEN last.ret = Nil /\ last.calls = {<<"sqlite3_backup_finish", "ok">>}
          ELSE last.ret = [kind |-> "os.Errno", code |-> 22, text |-> ""]
               /\ last.calls = {}

C4_SecondClose ==
  last.op = "Backup.Close" /\ ~last.ok /\ bk.finished = 1

\* C5: Stmt.Next returns true iff sqlite3_step returned row-available (100); when
\* it returns false, Stmt.Error() is nil exactly when that step returned
\* finished (101).
C5_NextError ==
  Returned("Stmt.Next") /\ StaleCalls = {} =>
    /\ last.ok <=> last.rv = 100
    /\ ~last.ok => (stmt.err = Nil <=> last.rv = 101)

\* C6 as claimed: Stmt.Exec with N arguments on a statement that has M # N bind
\* parameters and is not finalized returns the "incorrect argument count" error
\* and makes no bind call, whatever state the statement is in.
C6_ArgCountAlways ==
  Returned("Stmt.Exec") /\ StaleCalls = {} /\ last.n # last.m =>
    /\ last.ret = NewError("incorrect argument count for Stmt.Exec: have "
                           \o ToString(last.n) \o " want " \o ToString(last.m))
    /\ BindCalls = {}

\* C6 amended: Stmt.Exec with N arguments on a statement that has M # N bind
\* parameters and is not finalized makes no bind call and returns an error: the
\* "incorrect argument count" error when sqlite3_reset returned 0, and the
\* rendering of the status of sqlite3_reset otherwise.
C6_ArgCountAfterReset ==
  Returned("Stmt.Exec") /\ StaleCalls = {} /\ last.n # last.m =>
    /\ BindCalls = {}
    /\ last.ret # Nil
    /\ last.rv = 0 =>
         last.ret = NewError("incorrect argument count for Stmt.Exec: have "
                             \o ToString(last.n) \o " want " \o ToString(last.m))
    /\ last.rv # 0 =>
         IF conn[last.c].db = NIL THEN last.ret = NewError("nil sqlite database")
         ELSE IsRendering(last.ret, last.rv)

C6_MismatchAfterStepError ==
  Returned("Stmt.Exec") /\ StaleCalls = {} /\ last.n # last.m /\ last.rv # 0

\* C7: Conn.Exec returns nil only if Prepare and the binds succeeded and its one
\* step returned finished (101); for every other status of the step, row-available
\* (100) too, it returns the connection's rendering of the status, an error.
C7_ConnExec ==
  last.op = "Conn.Exec" =>
    /\ last.ret = Nil => last.ok /\ last.pre = Nil /\ last.rv = 101
    /\ last.rv \notin {-1, 101} => last.ret # Nil /\ IsRendering(last.ret, last.rv)

C7_RowIsAnError ==
  last.op = "Conn.Exec" /\ last.rv = 100 /\ last.ret # Nil

\* C8: what Backup.Run returns is the rendering of the error code of the
\* destination at that moment, whatever its last Step returned: nil exactly when
\* the destination is open and its error code is 0.
C8_RunResult ==
  Returned("Backup.Run") =>
    /\ last.ret = Nil <=> (conn["dst"].db # NIL /\ last.n = 0)
    /\ conn["dst"].db = NIL => last.ret = NewError("nil sqlite database")
    /\ conn["dst"].db # NIL /\ last.n # 0 => IsRendering(last.ret, last.n)

C8_FailureLooksLikeSuccess ==
  Returned("Backup.Run") /\ last.rv = 1 /\ last.pre # Nil /\ last.ret = Nil

\* C9: Conn.error on a connection without a handle gives the "nil sqlite
\* database" error for every status; on an open connection nil for 0, the
\* bare Errno(21) for 21, and "<canonical text>: <engine message>" otherwise.
C9_ErrorRendering ==
  last.op = "error" =>
    IF last.dbnil THEN last.ret = NewError("nil sqlite database")
    ELSE IF last.rv = 0 THEN last.ret = Nil
    ELSE IF last.rv = 21 THEN last.ret = [kind |-> "Errno", code |-> 21, text |-> ""]
    ELSE /\ last.ret.kind = "NewError"
         /\ last.ret.text = (IF last.rv \in DOMAIN errText THEN errText[last.rv]
                             ELSE "errno " \o ToString(last.rv))
                            \o ": " \o last.pre.text

C9_MisuseIsBare ==
  last.op = "error" /\ ~last.dbnil /\ last.rv = 21 /\ last.ret.text = ""

\* C10: Backup.Step returns nil exactly for the statuses 0, busy and locked; Run
\* steps again after each of them and leaves its loop only after a step with
\* another status, after which it makes no further step and returns; so a Run
\* whose step reported another status eventually returns, and a Run never
\* returns otherwise.
C10_RunTermination ==
  /\ [](Returned("Backup.Step") => (last.ret = Nil <=> last.rv \in Transient))
  /\ [][run'.pc = "check" /\ run.pc # "check"
          => run.pc = "step" /\ (run'.err = Nil <=> run'.rv \in Transient)]_vars
  /\ [][run.pc = "check" /\ run.rv \in Transient
          => run'.pc \in {"send", "sleep"}]_vars
  /\ [][run'.pc = "return" /\ run.pc # "return"
          => run.pc = "check" /\ run.rv \notin Transient]_vars
  /\ [][run.pc = "return" => run'.pc = "idle" /\ last'.op = "Backup.Run"]_vars
  /\ [][last'.op = "Backup.Run" /\ last'.ret # Aborted /\ last.op # "Backup.Run"
          => run.pc = "return" /\ run.rv \notin Transient]_vars
  /\ (run.pc \in {"send", "sleep"}) ~> (run.pc = "check")
  /\ (run.pc = "check" /\ run.rv \notin Transient) ~> Returned("Backup.Run")

C10_ReturnedAfterDone ==
  Returned("Backup.Run") /\ last.rv = 101 /\ last.ok
====
